---- MODULE Spec2Model ----
(***************************************************************************)
(* Model of the demo language server (server.js): the document-change      *)
(* handler (diagnostics + naive symbol indexing), the word locator and the *)
(* hover / definition / references / rename handlers.                      *)
(*                                                                         *)
(* A JavaScript string is a sequence of one-character strings; positions   *)
(* and ranges keep the 0-based line/character numbers of the code, and the *)
(* helpers below translate them to the 1-based indices of TLA+ sequences.  *)
(***************************************************************************)
EXTENDS Integers, Sequences, FiniteSets, TLC

VARIABLES documents, symbolTable, published, indexedText, response

vars == <<documents, symbolTable, published, indexedText, response>>

----------------------------------------------------------------------------
(* JavaScript values that are not strings, arrays or objects. *)

\* undefined: what reading a missing array element or object key yields
Undefined == [type |-> "undefined"]

\* null: the "not found" result of a handler and the "no word" of the locator
Null == [type |-> "null"]

\* the exception thrown by reading a property of undefined
TypeError == [type |-> "TypeError"]

\* a string value where null may stand instead
String(chars) == [type |-> "string", chars |-> chars]

\* how a handler ends: it returns a value, or an exception leaves it
Return(value) == [outcome |-> "return", value |-> value]
Throw(error) == [outcome |-> "throw", error |-> error]

----------------------------------------------------------------------------
(* Character classes of the regular expressions in server.js. *)

LowerCase ==
    {"a","b","c","d","e","f","g","h","i","j","k","l","m",
     "n","o","p","q","r","s","t","u","v","w","x","y","z"}

UpperCase ==
    {"A","B","C","D","E","F","G","H","I","J","K","L","M",
     "N","O","P","Q","R","S","T","U","V","W","X","Y","Z"}

Digits == {"0","1","2","3","4","5","6","7","8","9"}

\* [a-zA-Z0-9_$]
IdentChars == LowerCase \cup UpperCase \cup Digits \cup {"_", "$"}

\* \w, the class \b is defined by: [A-Za-z0-9_]
WordChars == LowerCase \cup UpperCase \cup Digits \cup {"_"}

\* \s, restricted to the ASCII white space
SpaceChars == {" ", "\t", "\n", "\r", "\f"}

LF == "\n"
CR == "\r"

\* the grave accent (U+0060), which a TLA+ string literal cannot hold
Backtick == "U+0060"

----------------------------------------------------------------------------
(* String primitives. *)

\* s.substring(from, to) for 0 <= from <= to <= s.length
Substring(s, from, to) == SubSeq(s, from + 1, to)

\* whether needle occurs in s at the 0-based index i
OccursAt(s, needle, i) ==
    /\ i >= 0
    /\ i + Len(needle) <= Len(s)
    /\ \A k \in 1..Len(needle) : s[i + k] = needle[k]

\* s.indexOf(needle): the first 0-based index of needle in s, -1 if none
IndexOf(s, needle) ==
    LET hits == {i \in 0..Len(s) : OccursAt(s, needle, i)}
    IN  IF hits = {} THEN -1
        ELSE CHOOSE i \in hits : \A j \in hits : i <= j

\* text.split(/\r?\n/g): every "\n" is a break and takes a "\r" that stands
\* right before it; any other "\r" stays in its line.  Breaks(text) are the
\* 1-based indices of the "\n"; line k runs from after break k-1 up to
\* break k, less that "\r".
Breaks(text) == {i \in 1..Len(text) : text[i] = LF}

Split(text) ==
    LET breaks == Breaks(text)
        n == Cardinality(breaks) + 1
        \* the k-th break, in text order
        nth == [k \in 1..(n - 1) |->
                   CHOOSE i \in breaks :
                       Cardinality({j \in breaks : j < i}) = k - 1]
        first(k) == IF k = 1 THEN 1 ELSE nth[k - 1] + 1
        last(k) ==
            IF k = n THEN Len(text)
            ELSE IF nth[k] - 1 >= first(k) /\ text[nth[k] - 1] = CR
                 THEN nth[k] - 2 ELSE nth[k] - 1
    IN  [k \in 1..n |-> SubSeq(text, first(k), last(k))]

\* whether lines[i] of a JavaScript array is an element (0-based i);
\* outside 0..length-1 the read yields undefined
HasElement(lines, i) == i >= 0 /\ i < Len(lines)

\* a greedy run of a character class from the 1-based index i: the first
\* index >= i of s whose character is not in class, Len(s) + 1 when the run
\* reaches the end of s
RunEnd(s, i, class) ==
    LET stops == {j \in i..Len(s) : s[j] \notin class}
    IN  IF stops = {} THEN Len(s) + 1
        ELSE CHOOSE j \in stops : \A k \in stops : j <= k

----------------------------------------------------------------------------
(* The two declaration shapes of parseDocumentSymbols.                     *)
(*   varRegex  = /\b(?:let|const)\s+([a-zA-Z0-9_$]+)\s*=/                  *)
(*   funcRegex = /\bfunction\s+([a-zA-Z0-9_$]+)\s*\(/                      *)
(* Both are: word boundary, keyword, white space, identifier, optional     *)
(* white space, a closing character.  The quantifiers are greedy and the   *)
(* classes that follow one another are disjoint, so a match at a given     *)
(* start takes the maximal runs; line.match returns the leftmost match.    *)

KwLet == <<"l","e","t">>
KwConst == <<"c","o","n","s","t">>
KwFunction == <<"f","u","n","c","t","i","o","n">>

\* the match of  \b keyword \s+ (ident+) \s* closer  that starts at the
\* 1-based index p: [ok, name, at] with at the 0-based index of group 1
ShapeAt(line, p, keywords, closer) ==
    LET boundary == IF p = 1 THEN line[p] \in WordChars
                    ELSE (line[p - 1] \in WordChars) # (line[p] \in WordChars)
        kws == {k \in keywords : OccursAt(line, k, p - 1)}
    IN  IF ~boundary \/ kws = {} THEN [ok |-> FALSE]
        ELSE LET k == CHOOSE k \in kws : TRUE
                 q == p + Len(k)
                 s == RunEnd(line, q, SpaceChars)
                 e == RunEnd(line, s, IdentChars)
                 g == RunEnd(line, e, SpaceChars)
             IN  IF s > q /\ e > s /\ g <= Len(line) /\ line[g] = closer
                 THEN [ok |-> TRUE, name |-> SubSeq(line, s, e - 1), at |-> s - 1]
                 ELSE [ok |-> FALSE]

\* line.match(regex): the leftmost match, [ok |-> FALSE] for null
Match(line, keywords, closer) ==
    LET starts == {p \in 1..Len(line) : ShapeAt(line, p, keywords, closer).ok}
    IN  IF starts = {} THEN [ok |-> FALSE]
        ELSE ShapeAt(line, CHOOSE p \in starts : \A r \in starts : p <= r,
                     keywords, closer)

VarMatch(line) == Match(line, {KwLet, KwConst}, "=")

FuncMatch(line) == Match(line, {KwFunction}, "(")

----------------------------------------------------------------------------
(* 3. Diagnostics. *)

\* the line-length threshold of validateTextDocument
MaxLineLength == 80

\* DiagnosticSeverity.Warning
Warning == 2

Position(line, character) == [line |-> line, character |-> character]

Range(line, from, to) ==
    [start |-> Position(line, from), end |-> Position(line, to)]

\* the diagnostic pushed for line i (0-based) of lines
LineDiagnostic(lines, i) ==
    [severity |-> Warning,
     range |-> Range(i, MaxLineLength, Len(lines[i + 1])),
     message |-> "Line exceeds 80 characters.",
     source |-> "demo-lsp"]

\* a faulty loop that also reports a line of exactly the threshold length
RECURSIVE DiagnosticsFromInclusive(_, _)
DiagnosticsFromInclusive(lines, i) ==
    IF i >= Len(lines) THEN <<>>
    ELSE (IF Len(lines[i + 1]) >= MaxLineLength
          THEN <<LineDiagnostic(lines, i)>> ELSE <<>>)
         \o DiagnosticsFromInclusive(lines, i + 1)

\* the loop of validateTextDocument over the lines from i (0-based) on
RECURSIVE DiagnosticsFrom(_, _)
DiagnosticsFrom(lines, i) ==
    IF i >= Len(lines) THEN <<>>
    ELSE (IF Len(lines[i + 1]) > MaxLineLength
          THEN <<LineDiagnostic(lines, i)>> ELSE <<>>)
         \o DiagnosticsFrom(lines, i + 1)

\* the array validateTextDocument returns and sends
ValidateTextDocument(text) == DiagnosticsFrom(Split(text), 0)

----------------------------------------------------------------------------
(* 4. Naive symbol parsing. *)

\* a faulty symbol object whose range starts one character late
SymbolStartsLate(uri, i, line, name, type) ==
    LET startChar == IndexOf(line, name) + 1
        endChar == startChar + Len(name)
    IN  [name |-> name,
         range |-> Range(i, startChar, endChar),
         type |-> type,
         docUri |-> uri]

\* a faulty symbol object whose range ends at the length of the name
SymbolEndsAtLength(uri, i, line, name, type) ==
    LET startChar == IndexOf(line, name)
        endChar == Len(name)
    IN  [name |-> name,
         range |-> Range(i, startChar, endChar),
         type |-> type,
         docUri |-> uri]

\* the symbol object pushed for a match on line i
Symbol(uri, i, line, name, type) ==
    LET startChar == IndexOf(line, name)
        endChar == startChar + Len(name)
    IN  [name |-> name,
         range |-> Range(i, startChar, endChar),
         type |-> type,
         docUri |-> uri]

\* what one iteration of the loop pushes for line i: the variable
\* declaration first, then the function declaration
LineSymbols(uri, i, line) ==
    LET varMatch == VarMatch(line)
        funcMatch == FuncMatch(line)
    IN  (IF varMatch.ok /\ varMatch.name # <<>>
         THEN <<Symbol(uri, i, line, varMatch.name, "variable")>> ELSE <<>>)
        \o
        (IF funcMatch.ok /\ funcMatch.name # <<>>
         THEN <<Symbol(uri, i, line, funcMatch.name, "function")>> ELSE <<>>)

RECURSIVE SymbolsFrom(_, _, _)
SymbolsFrom(uri, lines, i) ==
    IF i >= Len(lines) THEN <<>>
    ELSE LineSymbols(uri, i, lines[i + 1]) \o SymbolsFrom(uri, lines, i + 1)

\* a faulty parseDocumentSymbols that does not reset the entry of uri
\* before the scan, so the symbols of the new text follow the old ones
ParseDocumentSymbolsNoReset(table, uri, text) ==
    LET old == IF uri \in DOMAIN table THEN table[uri] ELSE <<>>
    IN  (uri :> (old \o SymbolsFrom(uri, Split(text), 0))) @@ table

\* symbolTable after parseDocumentSymbols(textDocument): the entry of uri
\* is reset to [] and filled by the scan
ParseDocumentSymbols(table, uri, text) ==
    LET reset == (uri :> <<>>) @@ table
    IN  (uri :> (reset[uri] \o SymbolsFrom(uri, Split(text), 0))) @@ reset

----------------------------------------------------------------------------
(* 5. Word extraction. *)

\* a faulty first loop that never moves start
WordStartStays(lineText, start) == start

\* the first while loop: start moves left over identifier characters
RECURSIVE WordStart(_, _)
WordStart(lineText, start) ==
    IF start > 0 /\ lineText[start] \in IdentChars
    THEN WordStart(lineText, start - 1)
    ELSE start

\* the second while loop: end moves right over identifier characters
RECURSIVE WordEnd(_, _)
WordEnd(lineText, end) ==
    IF end < Len(lineText) /\ lineText[end + 1] \in IdentChars
    THEN WordEnd(lineText, end + 1)
    ELSE end

\* a faulty getWordAtPosition that lets the end of the line through
GetWordAtPositionPastEnd(text, line, character) ==
    LET lines == Split(text)
    IN  IF line >= Len(lines) THEN Null
        ELSE IF ~HasElement(lines, line) THEN TypeError
        ELSE LET lineText == lines[line + 1]
             IN  IF character > Len(lineText) THEN Null
                 ELSE String(Substring(lineText,
                                       WordStart(lineText, character),
                                       WordEnd(lineText, character)))

\* a faulty getWordAtPosition without the check of the line number
GetWordAtPositionNoLineCheck(text, line, character) ==
    LET lines == Split(text)
    IN  IF ~HasElement(lines, line) THEN TypeError
        ELSE LET lineText == lines[line + 1]
             IN  IF character >= Len(lineText) THEN Null
                 ELSE String(Substring(lineText,
                                       WordStart(lineText, character),
                                       WordEnd(lineText, character)))

\* getWordAtPosition for line >= 0 and character >= 0: null, the word, or
\* the TypeError that reading the length of a missing line throws
GetWordAtPosition(text, line, character) ==
    LET lines == Split(text)
    IN  IF line >= Len(lines) THEN Null
        ELSE IF ~HasElement(lines, line) THEN TypeError  \* undefined.length
        ELSE LET lineText == lines[line + 1]
             IN  IF character >= Len(lineText) THEN Null
                 ELSE String(Substring(lineText,
                                       WordStart(lineText, character),
                                       WordEnd(lineText, character)))

\* !value: undefined, null and the empty string are falsy
Falsy(value) ==
    \/ value = Null
    \/ value = Undefined
    \/ (value.type = "string" /\ value.chars = <<>>)

\* a faulty isPositionInRange that takes the end of the range as exclusive
IsPositionInRangeEndExclusive(line, character, range) ==
    IF line < range.start.line \/ line > range.end.line THEN FALSE
    ELSE IF line = range.start.line /\ character < range.start.character THEN FALSE
    ELSE IF line = range.end.line /\ character >= range.end.character THEN FALSE
    ELSE TRUE

\* isPositionInRange
IsPositionInRange(line, character, range) ==
    IF line < range.start.line \/ line > range.end.line THEN FALSE
    ELSE IF line = range.start.line /\ character < range.start.character THEN FALSE
    ELSE IF line = range.end.line /\ character > range.end.character THEN FALSE
    ELSE TRUE

----------------------------------------------------------------------------
(* 6. LSP feature handlers. *)

\* object[key] || []
EntryOrEmpty(table, uri) == IF uri \in DOMAIN table THEN table[uri] ELSE <<>>

\* documents.get(uri)
DocumentsGet(docs, uri) == IF uri \in DOMAIN docs THEN docs[uri] ELSE Undefined

TypeChars(type) ==
    IF type = "variable" THEN <<"v","a","r","i","a","b","l","e">>
    ELSE <<"f","u","n","c","t","i","o","n">>

\* the template string of handleHover: Symbol and Type lines in markdown
HoverValue(sym) ==
    <<"*","*","S","y","m","b","o","l","*","*",":"," ",Backtick>> \o sym.name
    \o <<Backtick,LF,"*","*","T","y","p","e","*","*",":"," ",Backtick>>
    \o TypeChars(sym.type) \o <<Backtick>>

\* the indices (1-based) of the symbols whose range contains the position
Containing(docSymbols, line, character) ==
    {k \in 1..Len(docSymbols) :
        IsPositionInRange(line, character, docSymbols[k].range)}

Min(S) == CHOOSE i \in S : \A j \in S : i <= j

HandleHover(table, uri, line, character) ==
    LET docSymbols == EntryOrEmpty(table, uri)
        hits == Containing(docSymbols, line, character)
    IN  IF hits = {} THEN Return(Null)
        ELSE Return([contents |-> [kind |-> "markdown",
                        value |-> HoverValue(docSymbols[Min(hits)])]])

Max(S) == CHOOSE i \in S : \A j \in S : i >= j

\* a faulty handleDefinition that answers with the last symbol of the name
HandleDefinitionLast(docs, table, uri, line, character) ==
    LET doc == DocumentsGet(docs, uri)
    IN  IF doc = Undefined THEN Return(Null)
        ELSE LET word == GetWordAtPosition(doc.text, line, character)
             IN  IF word = TypeError THEN Throw(TypeError)
                 ELSE IF Falsy(word) THEN Return(Null)
                 ELSE LET docSymbols == EntryOrEmpty(table, uri)
                          found == {k \in 1..Len(docSymbols) :
                                        docSymbols[k].name = word.chars}
                      IN  IF found = {} THEN Return(Null)
                          ELSE Return([uri |-> docSymbols[Max(found)].docUri,
                                       range |-> docSymbols[Max(found)].range])

HandleDefinition(docs, table, uri, line, character) ==
    LET doc == DocumentsGet(docs, uri)
    IN  IF doc = Undefined THEN Return(Null)
        ELSE LET word == GetWordAtPosition(doc.text, line, character)
             IN  IF word = TypeError THEN Throw(TypeError)
                 ELSE IF Falsy(word) THEN Return(Null)
                 ELSE LET docSymbols == EntryOrEmpty(table, uri)
                          found == {k \in 1..Len(docSymbols) :
                                        docSymbols[k].name = word.chars}
                      IN  IF found = {} THEN Return(Null)
                          ELSE Return([uri |-> docSymbols[Min(found)].docUri,
                                       range |-> docSymbols[Min(found)].range])

\* a faulty loop that tests the index for truth, and so drops a line whose
\* first occurrence is at column 0
RECURSIVE OccurrencesFromTruthy(_, _, _)
OccurrencesFromTruthy(lines, word, i) ==
    IF i >= Len(lines) THEN <<>>
    ELSE LET idx == IndexOf(lines[i + 1], word)
         IN  (IF idx > 0 THEN <<Range(i, idx, idx + Len(word))>> ELSE <<>>)
             \o OccurrencesFromTruthy(lines, word, i + 1)

\* the loop shared in shape by handleReferences and handleRenameRequest:
\* the lines from i on that contain word, each with the index of its first
\* occurrence
RECURSIVE OccurrencesFrom(_, _, _)
OccurrencesFrom(lines, word, i) ==
    IF i >= Len(lines) THEN <<>>
    ELSE LET idx == IndexOf(lines[i + 1], word)
         IN  (IF idx # -1 THEN <<Range(i, idx, idx + Len(word))>> ELSE <<>>)
             \o OccurrencesFrom(lines, word, i + 1)

HandleReferences(docs, uri, line, character) ==
    LET doc == DocumentsGet(docs, uri)
    IN  IF doc = Undefined THEN Return(<<>>)
        ELSE LET word == GetWordAtPosition(doc.text, line, character)
             IN  IF word = TypeError THEN Throw(TypeError)
                 ELSE IF Falsy(word) THEN Return(<<>>)
                 ELSE LET ranges == OccurrencesFrom(Split(doc.text), word.chars, 0)
                      IN  Return([k \in 1..Len(ranges) |->
                                     [uri |-> uri, range |-> ranges[k]]])

\* a faulty handleRenameRequest whose edits span the length of the new name
HandleRenameRequestNewLength(docs, uri, line, character, newName) ==
    LET doc == DocumentsGet(docs, uri)
    IN  IF doc = Undefined THEN Return(Null)
        ELSE LET oldName == GetWordAtPosition(doc.text, line, character)
             IN  IF oldName = TypeError THEN Throw(TypeError)
                 ELSE IF Falsy(oldName) \/ Falsy(newName) THEN Return(Null)
                 ELSE LET ranges == OccurrencesFrom(Split(doc.text), oldName.chars, 0)
                      IN  Return([changes |-> (uri :>
                              [k \in 1..Len(ranges) |->
                                  [range |-> Range(ranges[k].start.line,
                                         ranges[k].start.character,
                                         ranges[k].start.character
                                             + Len(newName.chars)),
                                   newText |-> newName.chars]])])

HandleRenameRequest(docs, uri, line, character, newName) ==
    LET doc == DocumentsGet(docs, uri)
    IN  IF doc = Undefined THEN Return(Null)
        ELSE LET oldName == GetWordAtPosition(doc.text, line, character)
             IN  IF oldName = TypeError THEN Throw(TypeError)
                 ELSE IF Falsy(oldName) \/ Falsy(newName) THEN Return(Null)
                 ELSE LET ranges == OccurrencesFrom(Split(doc.text), oldName.chars, 0)
                      IN  Return([changes |-> (uri :>
                              [k \in 1..Len(ranges) |->
                                  [range |-> ranges[k],
                                   newText |-> newName.chars]])])

----------------------------------------------------------------------------
(* The documents and requests the model draws its inputs from. *)

\* a comment rule: n times the character -
Pad(n) == [i \in 1..n |-> "-"]

\* the empty document
TextEmpty ==
    <<>>

\* a variable, a function and a use of both
TextExample ==
    <<"l","e","t"," ","a","b","=","1",LF,"f","u","n","c","t","i","o","n"," ","g","(",")","{",LF," ","g","(","a","b",")","}">>

\* a paired terminator, a bare CR inside a line, a trailing terminator
TextCrLf ==
    <<"l","e","t"," ","a","b","=","1",CR,LF,"a","b","+","a","b",CR,"a","b",LF>>

\* a variable whose name occurs earlier on its line (in the keyword)
TextEarlier ==
    <<"l","e","t"," ","t","=","1",LF," ","t">>

\* a function whose name occurs earlier on its line (in the keyword)
TextFuncEarlier ==
    <<"f","u","n","c","t","i","o","n"," ","f","(","x",")">>

\* both shapes on one line, the same name
TextBoth ==
    <<"l","e","t"," ","g","=","f","u","n","c","t","i","o","n"," ","g","(">>

\* both shapes on one line, the variable named inside the function name
TextShadow ==
    <<"f","u","n","c","t","i","o","n"," ","a","b","("," ","l","e","t"," ","b","=">>

\* a keyword after a dollar sign: a word boundary, yet one identifier
TextDollar ==
    <<"$","l","e","t"," ","x","=","$","y","_","1">>

\* keywords inside longer words
TextNoBoundary ==
    <<"a","l","e","t"," ","x","=","1",LF,"_","l","e","t"," ","y","=","2">>

\* keywords and names without the closing character
TextNoCloser ==
    <<"l","e","t"," ","x",LF,"f","u","n","c","t","i","o","n"," ","y">>

\* the binding shape twice on one line
TextTwo ==
    <<"l","e","t"," ","a","=","l","e","t"," ","b","=","2">>

\* the const keyword
TextConst ==
    <<"c","o","n","s","t"," ","d"," ","="," ","1",";"," ","d">>

\* tabs and runs of blanks between the parts of a shape
TextSpaces ==
    <<"l","e","t","\t"," ","q"," "," ","=","\t","f","u","n","c","t","i","o","n"," "," ","h"," "," ","(">>

\* a name that is also part of longer identifiers
TextSubstring ==
    <<"l","e","t"," ","a","=","1",LF,"a","b"," ","a",LF,"b","a">>

\* one name declared on two lines
TextRedeclared ==
    <<"l","e","t"," ","a","=","1",LF,"f","u","n","c","t","i","o","n"," ","a","(">>

\* positions off any identifier, an empty line
TextPunct ==
    <<";"," ",";",LF,LF,"A","1","=","_">>

\* a short line, then a line of 81 characters
TextLong == <<"a","b",LF>> \o Pad(MaxLineLength + 1)

\* a line of exactly 80 characters, then a line of 85 that declares t
TextEdge ==
    Pad(MaxLineLength) \o <<CR,LF>> \o Pad(MaxLineLength - 2)
    \o <<" ","l","e","t"," ","t","=">>

Texts ==
    {TextEmpty, TextExample, TextCrLf, TextEarlier, TextFuncEarlier,
     TextBoth, TextShadow, TextDollar, TextNoBoundary, TextNoCloser,
     TextTwo, TextConst, TextSpaces, TextSubstring, TextRedeclared,
     TextPunct, TextLong, TextEdge}

\* the documents of the two-document server runs
ServerTexts == {TextEmpty, TextExample, TextBoth, TextLong, TextEdge}

UriA == "file:///a.js"
UriB == "file:///b.js"
URIs == {UriA, UriB}

\* the largest line and character a request names
MaxLine == 2
MaxChar == 11

Lines == 0..MaxLine
Characters == 0..MaxChar

\* params.newName: missing, empty, a name
NewNames == {Undefined, String(<<>>), String(<<"z","z">>)}

----------------------------------------------------------------------------
(* The server as a state machine.                                          *)
(*   documents    the TextDocuments manager: uri -> open document          *)
(*   symbolTable  the symbolTable object: uri -> array of symbols          *)
(*   published    the last diagnostics sent for each uri                   *)
(*   indexedText  the text of the last content change handled for each uri *)
(*   response     the request being answered: the handler's result, until *)
(*                the connection has written the reply                     *)
(* The connection dispatches one message at a time: a handler runs to its  *)
(* end, and the reply to a request is written, before the next message is  *)
(* taken.                                                                  *)

NoResponse == [op |-> "none"]

Init ==
    /\ documents = <<>>
    /\ symbolTable = <<>>
    /\ published = <<>>
    /\ indexedText = <<>>
    /\ response = NoResponse

\* a faulty send that is skipped when there is nothing to report, so the
\* diagnostics of an earlier text stay published
SendDiagnosticsIfAny(sent, uri, diagnostics) ==
    IF diagnostics = <<>> THEN sent ELSE (uri :> diagnostics) @@ sent

\* connection.sendDiagnostics({uri, diagnostics}) of validateTextDocument
SendDiagnostics(sent, uri, diagnostics) == (uri :> diagnostics) @@ sent

\* documents.onDidChangeContent: validateTextDocument, then
\* parseDocumentSymbols, on the document the manager has just stored
OnDidChangeContent(uri, text) ==
    /\ response = NoResponse
    /\ documents' = (uri :> [uri |-> uri, text |-> text]) @@ documents
    /\ published' = SendDiagnostics(published, uri, ValidateTextDocument(text))
    /\ symbolTable' = ParseDocumentSymbols(symbolTable, uri, text)
    /\ indexedText' = (uri :> text) @@ indexedText
    /\ UNCHANGED response

\* textDocument/didOpen
DidOpen(uri, text) ==
    /\ uri \notin DOMAIN documents
    /\ OnDidChangeContent(uri, text)

\* textDocument/didChange
DidChange(uri, text) ==
    /\ uri \in DOMAIN documents
    /\ OnDidChangeContent(uri, text)

\* a faulty close that also drops the table entry of the document
DidCloseEvicts(uri) ==
    /\ response = NoResponse
    /\ uri \in DOMAIN documents
    /\ documents' = [u \in DOMAIN documents \ {uri} |-> documents[u]]
    /\ symbolTable' = [u \in DOMAIN symbolTable \ {uri} |-> symbolTable[u]]
    /\ UNCHANGED <<published, indexedText, response>>

\* textDocument/didClose: the manager drops the document; the server
\* registers no handler of its own
DidClose(uri) ==
    /\ response = NoResponse
    /\ uri \in DOMAIN documents
    /\ documents' = [u \in DOMAIN documents \ {uri} |-> documents[u]]
    /\ UNCHANGED <<symbolTable, published, indexedText, response>>

Request(op, uri, line, character, newName, result) ==
    [op |-> op, uri |-> uri, line |-> line, character |-> character,
     newName |-> newName, result |-> result]

\* connection.onHover(handleHover)
Hover(uri, line, character) ==
    /\ response = NoResponse
    /\ response' = Request("hover", uri, line, character, Undefined,
                           HandleHover(symbolTable, uri, line, character))
    /\ UNCHANGED <<documents, symbolTable, published, indexedText>>

\* connection.onDefinition(handleDefinition)
Definition(uri, line, character) ==
    /\ response = NoResponse
    /\ response' = Request("definition", uri, line, character, Undefined,
            HandleDefinition(documents, symbolTable, uri, line, character))
    /\ UNCHANGED <<documents, symbolTable, published, indexedText>>

\* connection.onReferences(handleReferences)
References(uri, line, character) ==
    /\ response = NoResponse
    /\ response' = Request("references", uri, line, character, Undefined,
                           HandleReferences(documents, uri, line, character))
    /\ UNCHANGED <<documents, symbolTable, published, indexedText>>

\* connection.onRenameRequest(handleRenameRequest)
Rename(uri, line, character, newName) ==
    /\ response = NoResponse
    /\ response' = Request("rename", uri, line, character, newName,
            HandleRenameRequest(documents, uri, line, character, newName))
    /\ UNCHANGED <<documents, symbolTable, published, indexedText>>

\* the connection writes the reply of the handler that has returned
Reply ==
    /\ response # NoResponse
    /\ response' = NoResponse
    /\ UNCHANGED <<documents, symbolTable, published, indexedText>>

Query ==
    \E uri \in URIs, line \in Lines, character \in Characters :
        \/ Hover(uri, line, character)
        \/ Definition(uri, line, character)
        \/ References(uri, line, character)
        \/ \E newName \in NewNames : Rename(uri, line, character, newName)

\* the server with two documents, opened, changed and closed in any order
Next ==
    \/ \E uri \in URIs, text \in ServerTexts : DidOpen(uri, text)
    \/ \E uri \in URIs, text \in ServerTexts : DidChange(uri, text)
    \/ \E uri \in URIs : DidClose(uri)
    \/ Query
    \/ Reply

Spec == Init /\ [][Next]_vars

\* a session on one document: UriA is opened once with any of the texts,
\* queried, and closed; UriB is never opened
OpenOnce(text) ==
    /\ UriA \notin DOMAIN symbolTable
    /\ DidOpen(UriA, text)

NextSession ==
    \/ \E text \in Texts : OpenOnce(text)
    \/ DidClose(UriA)
    \/ Query
    \/ Reply

SpecSession == Init /\ [][NextSession]_vars

----------------------------------------------------------------------------
(* Properties. *)

\* the symbols a fresh scan of text finds for uri
FreshScan(uri, text) == SymbolsFrom(uri, Split(text), 0)

\* symbols in line order, on one line the variable before the function
ScanOrdered(entry) ==
    \A k \in 1..(Len(entry) - 1) :
        \/ entry[k].range.start.line < entry[k + 1].range.start.line
        \/ /\ entry[k].range.start.line = entry[k + 1].range.start.line
           /\ entry[k].type = "variable"
           /\ entry[k + 1].type = "function"

\* whether this step changes, creates or removes the table entry of uri
EntryChanges(uri) ==
    \/ (uri \in DOMAIN symbolTable) # (uri \in DOMAIN symbolTable')
    \/ /\ uri \in DOMAIN symbolTable
       /\ uri \in DOMAIN symbolTable'
       /\ symbolTable[uri] # symbolTable'[uri]

\* C1: after any sequence of open/change events, the table entry of every
\* indexed uri is exactly the fresh scan of the last text delivered for it
\* (line order, per line the variable before the function); a step that
\* changes the entry of a uri is the indexing of that uri's new text and
\* changes the entry of no other uri.
C1_TableIsLatestScan ==
    /\ [](\A u \in DOMAIN symbolTable :
             /\ u \in DOMAIN indexedText
             /\ symbolTable[u] = FreshScan(u, indexedText[u])
             /\ ScanOrdered(symbolTable[u]))
    /\ [][\A u \in URIs :
             EntryChanges(u) =>
                 /\ u \in DOMAIN documents'
                 /\ documents'[u].text = indexedText'[u]
                 /\ \A v \in URIs \ {u} : ~EntryChanges(v)]_vars

\* both documents indexed, one of them closed since, with different tables
C1_Witness ==
    /\ DOMAIN symbolTable = URIs
    /\ UriA \notin DOMAIN documents
    /\ Len(symbolTable[UriA]) = 2
    /\ indexedText[UriB] = TextEdge
    /\ Len(symbolTable[UriB]) = 1

\* wordAt(uri, line, character): the word locator on the open document of
\* uri; no word when uri has no open document
WordAt(uri, line, character) ==
    IF uri \in DOMAIN documents
    THEN GetWordAtPosition(documents[uri].text, line, character)
    ELSE Null

\* no identifier under the position: no word, or the empty word
NoWord(word) == word = Null \/ (word.type = "string" /\ word.chars = <<>>)

\* C2: definition answers null when the position has no word or only the
\* empty word, or when no symbol of the uri's table has the word as its
\* name; otherwise it answers the queried uri and the declaration range of
\* the first symbol, in table order, whose name is the word.
C2_DefinitionFirstByName ==
    response.op = "definition" =>
        LET word == WordAt(response.uri, response.line, response.character)
            entry == EntryOrEmpty(symbolTable, response.uri)
            named == IF NoWord(word) \/ word.type # "string" THEN {}
                     ELSE {k \in 1..Len(entry) : entry[k].name = word.chars}
        IN  IF named = {}
            THEN response.result = Return(Null)
            ELSE response.result =
                     Return([uri |-> response.uri,
                             range |-> entry[Min(named)].range])

\* definition asked on a use in the third line, answered with line 0
C2_Witness ==
    /\ response.op = "definition"
    /\ response.line = 2
    /\ response.result.outcome = "return"
    /\ response.result.value # Null
    /\ response.result.value.range.start.line = 0

\* containment of a position in a range, both boundaries inclusive
Contains(range, line, character) ==
    /\ range.start.line <= line
    /\ line <= range.end.line
    /\ (line = range.start.line => character >= range.start.character)
    /\ (line = range.end.line => character <= range.end.character)

\* C3: hover answers the name and kind of the first symbol, in table order,
\* of the uri's table whose declaration range contains the position, and
\* null when there is no such symbol or the uri has no table entry.
C3_HoverFirstContaining ==
    response.op = "hover" =>
        LET entry == EntryOrEmpty(symbolTable, response.uri)
            hits == {k \in 1..Len(entry) :
                        Contains(entry[k].range, response.line,
                                 response.character)}
        IN  IF hits = {}
            THEN response.result = Return(Null)
            ELSE response.result =
                     Return([contents |->
                                [kind |-> "markdown",
                                 value |-> HoverValue(entry[Min(hits)])]])

\* hover answered at the inclusive end of a declaration range
C3_Witness ==
    /\ response.op = "hover"
    /\ response.result # Return(Null)
    /\ \E k \in 1..Len(EntryOrEmpty(symbolTable, response.uri)) :
           LET range == symbolTable[response.uri][k].range
           IN  /\ range.end.line = response.line
               /\ range.end.character = response.character

\* the declarations of the given line whose matched identifier (group 1 of
\* the shape's match) covers the character
DeclaredAt(text, line, character) ==
    LET lines == Split(text)
        shapes(l) ==
            {[type |-> "variable", match |-> VarMatch(l)],
             [type |-> "function", match |-> FuncMatch(l)]}
    IN  IF ~HasElement(lines, line) THEN {}
        ELSE {d \in shapes(lines[line + 1]) :
                 /\ d.match.ok
                 /\ d.match.at <= character
                 /\ character < d.match.at + Len(d.match.name)}

\* C4 as stated: hover at any position inside the identifier matched by a
\* recorded declaration answers that identifier's name and kind.
C4_HoverOnDeclaredIdentifier ==
    (response.op = "hover" /\ response.uri \in DOMAIN indexedText) =>
        \A d \in DeclaredAt(indexedText[response.uri], response.line,
                            response.character) :
            /\ response.result # Return(Null)
            /\ response.result.value.contents.value =
                   HoverValue([name |-> d.match.name, type |-> d.type])

\* whether the variable symbol recorded for the line covers the character
VariableRangeCovers(l, character) ==
    /\ VarMatch(l).ok
    /\ IndexOf(l, VarMatch(l).name) <= character
    /\ character <= IndexOf(l, VarMatch(l).name) + Len(VarMatch(l).name)

\* C4 amended: hover at any position inside the identifier matched by a
\* recorded declaration answers that identifier's name and kind, provided
\* the identifier's text does not occur earlier on its line and, for a
\* function, the range recorded for the variable declared on the same line
\* does not contain the position.
C4_HoverOnDeclaredIdentifierAmended ==
    (response.op = "hover" /\ response.uri \in DOMAIN indexedText) =>
        LET l == Split(indexedText[response.uri])[response.line + 1]
        IN  \A d \in DeclaredAt(indexedText[response.uri], response.line,
                                response.character) :
                (/\ IndexOf(l, d.match.name) = d.match.at
                 /\ (d.type = "function" =>
                        ~VariableRangeCovers(l, response.character)))
                => /\ response.result # Return(Null)
                   /\ response.result.value.contents.value =
                          HoverValue([name |-> d.match.name, type |-> d.type])

\* hover answered inside the identifier of a function declaration
C4_Witness ==
    /\ response.op = "hover"
    /\ response.uri \in DOMAIN indexedText
    /\ \E d \in DeclaredAt(indexedText[response.uri], response.line,
                            response.character) :
           /\ d.type = "function"
           /\ response.result # Return(Null)
           /\ response.result.value.contents.value =
                  HoverValue([name |-> d.match.name, type |-> d.type])

\* the requests that resolve the word under the position
WordOps == {"definition", "references", "rename"}

\* the "no identifier" answer of a word request
NoAnswer(op) == IF op = "references" THEN Return(<<>>) ELSE Return(Null)

\* the 0-based columns at which word occurs in the line
Columns(l, word) == {j \in 0..Len(l) : OccursAt(l, word, j)}

\* C5: references answers the empty sequence when the position has no word
\* or only the empty word; otherwise it answers, in ascending line order,
\* exactly one location for every line that contains the word and none for
\* any other line, each spanning [idx, idx + length(word)) with idx the
\* first occurrence of the word in its line; so the line of a declaration
\* of that name is among them whenever the name stands on it.
C5_ReferencesFirstPerLine ==
    response.op = "references" =>
        LET word == WordAt(response.uri, response.line, response.character)
            result == response.result
        IN  /\ result.outcome = "return"
            /\ IF NoWord(word) THEN result.value = <<>>
               ELSE LET lines == Split(documents[response.uri].text)
                        locs == result.value
                        matching == {i \in 0..(Len(lines) - 1) :
                                        Columns(lines[i + 1], word.chars) # {}}
                    IN  /\ Len(locs) = Cardinality(matching)
                        /\ \A k \in 1..Len(locs) :
                               LET i == locs[k].range.start.line
                               IN  /\ locs[k].uri = response.uri
                                   /\ i \in matching
                                   /\ locs[k].range.end.line = i
                                   /\ locs[k].range.start.character =
                                          Min(Columns(lines[i + 1], word.chars))
                                   /\ locs[k].range.end.character =
                                          locs[k].range.start.character
                                              + Len(word.chars)
                        /\ \A k \in 1..(Len(locs) - 1) :
                               locs[k].range.start.line
                                   < locs[k + 1].range.start.line
                        /\ \A sym \in {symbolTable[response.uri][n] :
                                           n \in 1..Len(symbolTable[response.uri])} :
                               (/\ sym.name = word.chars
                                /\ sym.range.start.line \in matching)
                               => \E k \in 1..Len(locs) :
                                      locs[k].range.start.line
                                          = sym.range.start.line

\* references on a declared name found on three lines, at column 0 on one
C5_Witness ==
    /\ response.op = "references"
    /\ response.result.outcome = "return"
    /\ Len(response.result.value) = 3
    /\ response.result.value[2].range.start.character = 0
    /\ Len(symbolTable[response.uri]) = 1
    /\ response.result.value[1].range = symbolTable[response.uri][1].range

\* C6: rename answers null when the old word is missing or empty or the new
\* name is missing or empty; otherwise its edits stand under the single key
\* uri, are as many as the locations references answers for the same uri
\* and position, the i-th edit has the i-th location's range, and every
\* edit's text is the new name.
C6_RenameFollowsReferences ==
    response.op = "rename" =>
        LET word == WordAt(response.uri, response.line, response.character)
            newName == response.newName
            refs == HandleReferences(documents, response.uri, response.line,
                                     response.character)
        IN  IF NoWord(word) \/ newName = Undefined \/ newName.chars = <<>>
            THEN response.result = Return(Null)
            ELSE /\ response.result.outcome = "return"
                 /\ response.result.value # Null
                 /\ DOMAIN response.result.value.changes = {response.uri}
                 /\ LET edits == response.result.value.changes[response.uri]
                    IN  /\ Len(edits) = Len(refs.value)
                        /\ \A k \in 1..Len(edits) :
                               /\ edits[k].range = refs.value[k].range
                               /\ edits[k].newText = newName.chars

\* a rename of a one-letter name found on three lines
C6_Witness ==
    /\ response.op = "rename"
    /\ response.result.outcome = "return"
    /\ response.result.value # Null
    /\ Len(response.result.value.changes[response.uri]) = 3
    /\ response.result.value.changes[response.uri][1].range.end.character
           = response.result.value.changes[response.uri][1].range.start.character + 1

\* whether the position is inside the line and character bounds of text
InBounds(text, line, character) ==
    /\ line \in 0..(Len(Split(text)) - 1)
    /\ character \in 0..(Len(Split(text)[line + 1]) - 1)

\* C7: at a position whose line is outside [0, lineCount) or whose
\* character is outside [0, lineLength), the end of the line included, the
\* word locator answers null, and the request that asked it ends with its
\* "not found" answer, not with an error.
C7_WordAtOutOfBounds ==
    (/\ response.op \in WordOps
     /\ response.uri \in DOMAIN documents
     /\ ~InBounds(documents[response.uri].text, response.line,
                  response.character))
    => /\ GetWordAtPosition(documents[response.uri].text, response.line,
                            response.character) = Null
       /\ response.result = NoAnswer(response.op)

\* a word request with the cursor at the end of a non-empty line
C7_Witness ==
    /\ response.op = "definition"
    /\ response.uri \in DOMAIN documents
    /\ response.line = 0
    /\ response.character > 0
    /\ response.character = Len(Split(documents[response.uri].text)[1])

\* C8: at a position inside the bounds the word locator answers the
\* substring [L, R) of the line, L the smallest index <= character with only
\* identifier characters in [L, character), R the largest index >= character
\* with only identifier characters in [character, R); when L = R the word
\* is the empty string and definition, references and rename answer as for
\* no identifier.
C8_WordAtSpan ==
    (/\ response.op \in WordOps
     /\ response.uri \in DOMAIN documents
     /\ InBounds(documents[response.uri].text, response.line,
                 response.character))
    => LET l == Split(documents[response.uri].text)[response.line + 1]
           c == response.character
           identifier(a, b) == \A j \in a..(b - 1) : l[j + 1] \in IdentChars
           L == Min({a \in 0..c : identifier(a, c)})
           R == Max({b \in c..Len(l) : identifier(c, b)})
           word == GetWordAtPosition(documents[response.uri].text,
                                     response.line, c)
       IN  /\ word = String(SubSeq(l, L + 1, R))
           /\ (L = R => /\ word = String(<<>>)
                         /\ response.result = NoAnswer(response.op))

\* a word request with the cursor in the middle of a word
C8_Witness ==
    /\ response.op = "references"
    /\ response.uri \in DOMAIN documents
    /\ InBounds(documents[response.uri].text, response.line,
                response.character)
    /\ LET word == WordAt(response.uri, response.line, response.character)
           l == Split(documents[response.uri].text)[response.line + 1]
       IN  /\ Len(word.chars) = 3
           /\ response.character > 0
           /\ l[response.character] \in IdentChars
           /\ l[response.character + 2] \in IdentChars

\* C9: the diagnostics sent for a uri are, in line order, exactly one for
\* every line of the text longer than 80 and none for a line of length
\* <= 80, each of severity Warning with the range [80, lineLength) on its
\* line; their number is the number of lines longer than 80.
C9_DiagnosticsPerLongLine ==
    \A u \in DOMAIN published :
        LET lines == Split(indexedText[u])
            diags == published[u]
            long == {i \in 0..(Len(lines) - 1) : Len(lines[i + 1]) > 80}
        IN  /\ Len(diags) = Cardinality(long)
            /\ \A k \in 1..Len(diags) :
                   LET i == diags[k].range.start.line
                   IN  /\ i \in long
                       /\ diags[k].severity = 2
                       /\ diags[k].range.start = [line |-> i, character |-> 80]
                       /\ diags[k].range.end =
                              [line |-> i, character |-> Len(lines[i + 1])]
            /\ \A k \in 1..(Len(diags) - 1) :
                   diags[k].range.start.line < diags[k + 1].range.start.line

\* a text with a line of exactly 80 and a line of 85 characters: one
\* diagnostic, on the second line
C9_Witness ==
    /\ UriB \in DOMAIN published
    /\ indexedText[UriB] = TextEdge
    /\ Len(published[UriB]) = 1
    /\ published[UriB][1].range.start.line = 1

\* C10: no request ends with an exception, whatever the document and the
\* position, inside the bounds or outside; for a uri that was never opened
\* hover, definition and rename answer null and references the empty
\* sequence; the empty document has an empty table entry and no diagnostics.
C10_NoFailure ==
    /\ response.op # "none" =>
           /\ response.result.outcome = "return"
           /\ response.uri \notin DOMAIN indexedText =>
                  response.result = NoAnswer(response.op)
    /\ \A u \in DOMAIN indexedText :
           indexedText[u] = <<>> =>
               /\ symbolTable[u] = <<>>
               /\ published[u] = <<>>

\* a word request on the open empty document, at a line outside it
C10_Witness ==
    /\ response.op = "rename"
    /\ response.uri \in DOMAIN documents
    /\ documents[response.uri].text = <<>>
    /\ response.line = MaxLine
    /\ response.result = Return(Null)

\* whether this step delivers a text for uri: the document is opened, or
\* its text changes
Delivers(uri) ==
    /\ uri \in DOMAIN documents'
    /\ (uri \notin DOMAIN documents \/ documents[uri] # documents'[uri])

\* the diagnostics sent for uri and its table entry are both those of text
UpToDate(sent, table, uri, text) ==
    /\ uri \in DOMAIN sent
    /\ uri \in DOMAIN table
    /\ sent[uri] = ValidateTextDocument(text)
    /\ table[uri] = FreshScan(uri, text)

\* C11: a step that delivers a text for a uri (open or change) ends with
\* the diagnostics of that text published for the uri and the uri's table
\* entry rebuilt from it, whatever the table held; so whenever a message is
\* taken, and whenever a request has been answered, the diagnostics and
\* the table of every open document are those of its current text, and a
\* hover on an open document is answered from the scan of that text.
C11_ChangePublishesAndReindexes ==
    /\ [][\A u \in URIs :
             Delivers(u) =>
                 UpToDate(published', symbolTable', u, documents'[u].text)]_vars
    /\ [](\A u \in DOMAIN documents :
             UpToDate(published, symbolTable, u, documents[u].text))
    /\ []((response.op = "hover" /\ response.uri \in DOMAIN documents) =>
             response.result =
                 HandleHover((response.uri :>
                                 FreshScan(response.uri,
                                           documents[response.uri].text)),
                             response.uri, response.line, response.character))

\* two open documents, one without and one with a long line, each with its
\* own diagnostics published, and a hover answered on the first
C11_Witness ==
    /\ DOMAIN documents = URIs
    /\ documents[UriA].text = TextExample
    /\ published[UriA] = <<>>
    /\ documents[UriB].text = TextLong
    /\ Len(published[UriB]) = 1
    /\ response.op = "hover"
    /\ response.uri = UriA
    /\ response.result # Return(Null)

\* the name the shape of the symbol's kind matches on the line, if any
MatchOfKind(l, type) == IF type = "variable" THEN VarMatch(l) ELSE FuncMatch(l)

\* C12: every symbol recorded for line i has a range on line i alone with
\* 0 <= start.character < end.character <= lineLength; start.character is
\* the index of the first occurrence of the name's text in the line (not
\* the place where the shape matched), end.character is start.character +
\* length(name), and the line reads the name over that range.
C12_RangeIsFirstOccurrence ==
    \A u \in DOMAIN symbolTable :
        \A k \in 1..Len(symbolTable[u]) :
            LET sym == symbolTable[u][k]
                lines == Split(indexedText[u])
                i == sym.range.start.line
            IN  /\ HasElement(lines, i)
                /\ sym.range.end.line = i
                /\ MatchOfKind(lines[i + 1], sym.type).ok
                /\ MatchOfKind(lines[i + 1], sym.type).name = sym.name
                /\ 0 <= sym.range.start.character
                /\ sym.range.start.character < sym.range.end.character
                /\ sym.range.end.character <= Len(lines[i + 1])
                /\ sym.range.start.character =
                       Min(Columns(lines[i + 1], sym.name))
                /\ sym.range.end.character =
                       sym.range.start.character + Len(sym.name)
                /\ SubSeq(lines[i + 1], sym.range.start.character + 1,
                          sym.range.end.character) = sym.name

\* a symbol recorded before the place where its shape matched the name
C12_Witness ==
    \E u \in DOMAIN symbolTable :
        \E k \in 1..Len(symbolTable[u]) :
            LET sym == symbolTable[u][k]
                l == Split(indexedText[u])[sym.range.start.line + 1]
            IN  sym.range.start.character < MatchOfKind(l, sym.type).at

\* whether this step closes the document of uri
Closes(uri) == uri \in DOMAIN documents /\ uri \notin DOMAIN documents'

\* C13: a step that closes a document leaves the whole symbol table as it
\* was; an entry, once created, is never removed, and it changes only in a
\* step that delivers a text for its own uri (an open or a change, which
\* indexes it); a hover on a closed uri is answered from the entry kept.
C13_EntriesOutliveClose ==
    /\ [][\A u \in URIs : Closes(u) => symbolTable' = symbolTable]_vars
    /\ [][\A u \in DOMAIN symbolTable :
             /\ u \in DOMAIN symbolTable'
             /\ (symbolTable'[u] # symbolTable[u] => Delivers(u))]_vars
    /\ []((/\ response.op = "hover"
           /\ response.uri \notin DOMAIN documents
           /\ response.uri \in DOMAIN symbolTable) =>
             LET entry == symbolTable[response.uri]
                 hits == {k \in 1..Len(entry) :
                             Contains(entry[k].range, response.line,
                                      response.character)}
             IN  /\ entry = FreshScan(response.uri, indexedText[response.uri])
                 /\ response.result =
                        IF hits = {} THEN Return(Null)
                        ELSE Return([contents |->
                                [kind |-> "markdown",
                                 value |-> HoverValue(entry[Min(hits)])]]))

\* a hover answered with a symbol of a document that is closed
C13_Witness ==
    /\ response.op = "hover"
    /\ response.uri \notin DOMAIN documents
    /\ response.uri \in DOMAIN symbolTable
    /\ Len(symbolTable[response.uri]) = 2
    /\ response.result # Return(Null)

====
